---- MODULE Spec2Model ----
(***************************************************************************)
(* Model of http-mcp-server.js: the session table and the request routing  *)
(* of the HTTP MCP server (POST /mcp, GET /mcp, transport.onclose, SIGINT) *)
(* and the two tools fetch_sports_odds and fetch_player_props.             *)
(*                                                                         *)
(* Node runs every handler on one event loop: a handler runs without       *)
(* interruption from one await to the next, so one action of the model is  *)
(* one such synchronous segment of a handler.  The MCP SDK (transport,     *)
(* protocol server) and the odds provider are outside the repository:      *)
(* their results are nondeterministic choices (a call returns or throws,   *)
(* a response has any status, a transport may close at any time).          *)
(***************************************************************************)
EXTENDS Integers, Sequences, FiniteSets, Bags, TLC

\* ------------------------------------------------------------------ bounds

\* Number of inbound HTTP requests on /mcp in one run.
MaxRequests == 2
\* Number of distinct session identifiers a caller invents by itself.
NumClientIds == 1

ClientIds == 1..NumClientIds
\* Identifiers produced by randomUUID(): fresh, never equal to an earlier one.
UuidIds == (NumClientIds + 1)..(NumClientIds + MaxRequests)
SessionIds == ClientIds \cup UuidIds
\* The value of a missing mcp-session-id header (undefined).
NoId == 0
\* Transport objects are numbered in the order of their construction; every
\* transport is constructed by a POST request, so there are at most MaxRequests.
TransportIds == 1..MaxRequests
\* The value of a missing table entry (undefined) and of line 265's null.
NoTransport == 0

\* ------------------------------------------------------------------ state

VARIABLES
    transports,     \* the session table: session id -> transport (NoTransport: no entry)
    tState,         \* per transport object: "unborn", "live" or "closed"
    newSessionId,   \* per transport: the identifier captured by its onclose handler
    tConnected,     \* per transport: server.connect(transport) has resolved
    tServer,        \* per transport: the protocol server created for it (0: none)
    serverTools,    \* per protocol server: the names registered by createServer
    nUuid,          \* number of identifiers randomUUID() has produced
    nReq,           \* number of requests received so far
    inflight,       \* bag of the requests whose handler is suspended at an await
    sdPc,           \* SIGINT handler: "running" (no signal yet), "closing" or "exited"
    sdKeys,         \* SIGINT handler: the keys the for-in loop has still to enumerate
    sdKey,          \* SIGINT handler: the key whose close() is awaited
    sdT,            \* SIGINT handler: the transport whose close() is awaited
    sigTransports,  \* history: the transports that were live when the signal arrived
    closeFailed,    \* history: transports whose close() rejected in the SIGINT handler
    closedIds,      \* history: identifiers whose transport has signalled closure
    last,           \* history: the step just taken
    call,           \* history: the tool call as the caller sent it
    data,           \* fetch_sports_odds: data, line 81
    events,         \* fetch_player_props: events, line 161
    toolPc,         \* tool call: "idle", "odds", "events", "props" (awaited fetch) or "done"
    args,           \* tool call: the arguments the handler received
    filteredEvents, \* fetch_player_props: filteredEvents, line 166
    gamesToProcess, \* fetch_player_props: gamesToProcess, line 192
    gameIdx,        \* fetch_player_props: position of the for-of loop in gamesToProcess
    fetches,        \* history: the provider requests issued by the call, in order
    responses,      \* history: the provider's answer to each request
    result,         \* the report text built so far, as a sequence of parts
    outcome         \* how the tool call ended: a report or an error

routingVars == <<transports, tState, newSessionId, tConnected, tServer, serverTools,
                 nUuid, nReq, inflight, sdPc, sdKeys, sdKey, sdT, sigTransports,
                 closeFailed, closedIds, last>>

toolVars == <<call, data, events, toolPc, args, filteredEvents, gamesToProcess, gameIdx, fetches,
              responses, result, outcome>>

vars == <<routingVars, toolVars>>

sessionVars == <<transports, tState, newSessionId, tConnected, tServer, serverTools, nUuid>>
sdVars == <<sdPc, sdKeys, sdKey, sdT, sigTransports, closeFailed>>

\* ------------------------------------------------------------------ helpers

Live == {t \in TransportIds : tState[t] = "live"}
Created == {t \in TransportIds : tState[t] # "unborn"}
nTransports == Cardinality(Created)
nServers == Len(serverTools)
OpenIds == {s \in SessionIds : transports[s] # NoTransport}
\* Identifiers a caller can put in the header: its own, or one the server issued.
KnownToCallers == ClientIds \cup ((NumClientIds + 1)..(NumClientIds + nUuid))

\* The step just taken: the operation; for a request its body (POST), its
\* header and whether the table had an entry for the header when it arrived;
\* the transport and the session identifier concerned; the answer given.
Step(op, body, hdr, known, t, sid, status) ==
    [op |-> op, body |-> body, hdr |-> hdr, known |-> known, t |-> t, sid |-> sid,
     status |-> status]

\* A step of a transport or of the SIGINT handler.
Event(op, t, sid) == Step(op, "none", NoId, FALSE, t, sid, "none")

\* crypto.randomUUID(): the next fresh identifier.
randomUUID == NumClientIds + nUuid + 1

\* The names createServer registers with server.registerTool, lines 45 and 132.
ToolNames == {"fetch_sports_odds", "fetch_player_props"}

\* createServer(): a new McpServer with both tools registered.
createServer == ToolNames

\* Mutant of onclose: the handler forgets the delete.
onclose_keepsEntry(t, table) == table

\* transport.onclose of transport t: delete transports[newSessionId].
onclose(t, table) == [table EXCEPT ![newSessionId[t]] = NoTransport]

\* The arguments of a tools/call request as sent; markets is optional.
Call(tool, sport, markets, team_filter) ==
    [tool |-> tool, sport |-> sport, markets |-> markets, team_filter |-> team_filter]
NoCall == Call("none", "none", [defined |-> FALSE, value |-> <<>>], <<>>)

\* No tool call yet.
NoArgs == [tool |-> "none", sport |-> "none", markets |-> <<>>, team_filter |-> <<>>]
\* How a tool call ends: kind "report", or kind "error" with the text of the
\* thrown Error: the prefix of the outer catch, the cause, and the HTTP status
\* interpolated into the message (0: the message holds no status).
Outcome(kind, prefix, cause, status) ==
    [kind |-> kind, prefix |-> prefix, cause |-> cause, status |-> status]
NoOutcome == Outcome("none", "", "", 0)

Init ==
    /\ transports = [s \in SessionIds |-> NoTransport]
    /\ tState = [t \in TransportIds |-> "unborn"]
    /\ newSessionId = [t \in TransportIds |-> NoId]
    /\ tConnected = [t \in TransportIds |-> FALSE]
    /\ tServer = [t \in TransportIds |-> 0]
    /\ serverTools = <<>>
    /\ nUuid = 0
    /\ nReq = 0
    /\ inflight = EmptyBag
    /\ sdPc = "running"
    /\ sdKeys = <<>>
    /\ sdKey = NoId
    /\ sdT = NoTransport
    /\ sigTransports = {}
    /\ closeFailed = {}
    /\ closedIds = {}
    /\ last = Event("init", NoTransport, NoId)
    /\ call = NoCall
    /\ data = <<>>
    /\ events = <<>>
    /\ toolPc = "idle"
    /\ args = NoArgs
    /\ filteredEvents = <<>>
    /\ gamesToProcess = <<>>
    /\ gameIdx = 0
    /\ fetches = <<>>
    /\ responses = <<>>
    /\ result = <<>>
    /\ outcome = NoOutcome

\* ------------------------------------------------------------------ POST /mcp

Bodies == {"initialize", "tools/call"}

\* isInitializeRequest(req.body) of the SDK: the body is an initialize message.
isInitializeRequest(body) == body = "initialize"

\* Line 265: sessionId ? transports[sessionId] : null
lookup(hdr) == IF hdr # NoId THEN transports[hdr] ELSE NoTransport

\* Mutant of needsNewTransport: a transport is created for every request.
needsNewTransport_always(transport, body) == TRUE

\* Mutant of needsNewTransport: the initialize test is left out.
needsNewTransport_noInit(transport, body) == transport = NoTransport

\* Mutant of needsNewTransport: the test of the lookup is left out.
needsNewTransport_onlyInit(transport, body) == isInitializeRequest(body)

\* Line 268: !transport || isInitializeRequest(req.body)
needsNewTransport(transport, body) ==
    transport = NoTransport \/ isInitializeRequest(body)

\* Mutant of pickSessionId: one fixed identifier for every session.
pickSessionId_fixed(hdr) == 1

\* Line 269: sessionId || randomUUID()
pickSessionId(hdr) == IF hdr # NoId THEN hdr ELSE randomUUID

\* A request in flight: its method and header, the await it is suspended at,
\* the value of its local variable transport, whether this request created
\* that transport, and the transport on which handleRequest was called for it.
Request(method, hdr, pc, t, creator, handledBy) ==
    [method |-> method, sid |-> hdr, pc |-> pc, transport |-> t,
     creator |-> creator, handledBy |-> handledBy]

One(q) == SetToBag({q})
InFlight == BagToSet(inflight)

\* mcpPostHandler from its entry to its first await: either the await of
\* server.connect (a transport was created) or of transport.handleRequest.
mcpPostHandler(hdr, body) ==
    /\ sdPc # "exited"
    /\ nReq < MaxRequests
    /\ nReq' = nReq + 1
    /\ LET transport == lookup(hdr)
           known == transport # NoTransport
       IN IF needsNewTransport(transport, body)
          THEN LET sid == pickSessionId(hdr)
                   t == nTransports + 1
               IN /\ transports' = [transports EXCEPT ![sid] = t]
                  /\ tState' = [tState EXCEPT ![t] = "live"]
                  /\ newSessionId' = [newSessionId EXCEPT ![t] = sid]
                  /\ tServer' = [tServer EXCEPT ![t] = nServers + 1]
                  /\ serverTools' = Append(serverTools, createServer)
                  /\ nUuid' = IF hdr = NoId THEN nUuid + 1 ELSE nUuid
                  /\ inflight' = inflight (+)
                        One(Request("POST", hdr, "connect", t, TRUE, NoTransport))
                  /\ last' = Step("postCreate", body, hdr, known, t, sid, "pending")
                  /\ UNCHANGED tConnected
          ELSE /\ inflight' = inflight (+)
                     One(Request("POST", hdr, "handle", transport, FALSE, transport))
               /\ last' = Step("postReuse", body, hdr, known, transport, hdr, "pending")
               /\ UNCHANGED sessionVars
    /\ UNCHANGED <<sdVars, closedIds>>
    /\ UNCHANGED toolVars

\* Lines 299-309 and 329-331: the answer of the catch block.
errorReply(method, headersSent) ==
    IF headersSent THEN "byTransport"
    ELSE IF method = "POST" THEN "500json" ELSE "500text"

\* await server.connect(transport) resolves; line 294 calls handleRequest.
connectReturns(q) ==
    /\ sdPc # "exited"
    /\ BagIn(q, inflight)
    /\ q.pc = "connect"
    /\ tConnected' = [tConnected EXCEPT ![q.transport] = TRUE]
    /\ inflight' = (inflight (-) One(q))
                     (+) One([q EXCEPT !.pc = "handle", !.handledBy = q.transport])
    /\ last' = Step("connectReturns", "none", q.sid, FALSE, q.transport, q.sid, "pending")
    /\ UNCHANGED <<transports, tState, newSessionId, tServer, serverTools, nUuid,
                   nReq, sdVars, closedIds>>
    /\ UNCHANGED toolVars

\* await server.connect(transport) rejects; lines 297-309 answer 500.
connectThrows(q) ==
    /\ sdPc # "exited"
    /\ BagIn(q, inflight)
    /\ q.pc = "connect"
    /\ inflight' = inflight (-) One(q)
    /\ last' = Step("connectThrows", "none", q.sid, FALSE, q.transport, q.sid,
                    errorReply(q.method, FALSE))
    /\ UNCHANGED <<sessionVars, nReq, sdVars, closedIds>>
    /\ UNCHANGED toolVars

\* await transport.handleRequest(...) resolves: the transport wrote the response.
handleReturns(q) ==
    /\ sdPc # "exited"
    /\ BagIn(q, inflight)
    /\ q.pc = "handle"
    /\ inflight' = inflight (-) One(q)
    /\ last' = Step("handleReturns", "none", q.sid, FALSE, q.transport, q.sid,
                    "byTransport")
    /\ UNCHANGED <<sessionVars, nReq, sdVars, closedIds>>
    /\ UNCHANGED toolVars

\* await transport.handleRequest(...) rejects, before or after the transport
\* has started to write the response.
handleThrows(q, headersSent) ==
    /\ sdPc # "exited"
    /\ BagIn(q, inflight)
    /\ q.pc = "handle"
    /\ inflight' = inflight (-) One(q)
    /\ last' = Step("handleThrows", "none", q.sid, FALSE, q.transport, q.sid,
                    errorReply(q.method, headersSent))
    /\ UNCHANGED <<sessionVars, nReq, sdVars, closedIds>>
    /\ UNCHANGED toolVars

\* ------------------------------------------------------------------ GET /mcp

\* Mutant of getRejects: only the missing header is rejected.
getRejects_headerOnly(hdr) == hdr = NoId

\* Line 319: !sessionId || !transports[sessionId]
getRejects(hdr) == hdr = NoId \/ transports[hdr] = NoTransport

\* app.get('/mcp'): 400, or the call of handleRequest on the stored transport.
mcpGetHandler(hdr) ==
    /\ sdPc # "exited"
    /\ nReq < MaxRequests
    /\ nReq' = nReq + 1
    /\ LET known == lookup(hdr) # NoTransport
       IN IF getRejects(hdr)
          THEN /\ last' = Step("getRejected", "none", hdr, known, NoTransport, hdr, "400")
               /\ UNCHANGED inflight
          ELSE /\ inflight' = inflight (+)
                     One(Request("GET", hdr, "handle", transports[hdr], FALSE,
                                 transports[hdr]))
               /\ last' = Step("getDispatched", "none", hdr, known, transports[hdr], hdr,
                               "pending")
    /\ UNCHANGED <<sessionVars, sdVars, closedIds>>
    /\ UNCHANGED toolVars

\* ------------------------------------------------------------------ closure

\* A transport signals closure (client disconnect, DELETE, error): the SDK
\* calls transport.onclose, lines 283-286.
transportCloses(t) ==
    /\ sdPc # "exited"
    /\ tState[t] = "live"
    /\ tState' = [tState EXCEPT ![t] = "closed"]
    /\ transports' = onclose(t, transports)
    /\ closedIds' = closedIds \cup {newSessionId[t]}
    /\ last' = Event("onclose", t, newSessionId[t])
    /\ UNCHANGED <<newSessionId, tConnected, tServer, serverTools, nUuid, nReq,
                   inflight, sdVars>>
    /\ UNCHANGED toolVars

\* ------------------------------------------------------------------ SIGINT

\* The orders in which for-in can enumerate the keys of the table: integer-like
\* keys first, then the others by insertion; the identifiers are arbitrary
\* text, so every order of the keys is possible.
Orders(keys) ==
    {o \in [1..Cardinality(keys) -> keys] : \A i, j \in DOMAIN o : o[i] = o[j] => i = j}

\* Line 352, for (const sessionId in transports): the keys left to enumerate,
\* from the next one that is visited; a key deleted before its turn is passed
\* over, a key added after the loop began is not enumerated.
RECURSIVE forIn(_, _)
forIn(keys, table) ==
    IF keys = <<>> THEN <<>>
    ELSE IF table[Head(keys)] = NoTransport THEN forIn(Tail(keys), table)
    ELSE keys

\* The SIGINT handler runs on from the head of its loop with the table as it
\* is now: it calls close() on the transport of the next key and awaits it
\* (line 355), or, with no key left, reaches process.exit(0) (line 362).
runLoop(keys, table) ==
    LET rest == forIn(keys, table)
    IN IF rest = <<>>
       THEN /\ sdPc' = "exited"
            /\ sdKeys' = <<>>
            /\ sdKey' = NoId
            /\ sdT' = NoTransport
       ELSE /\ sdPc' = "closing"
            /\ sdKeys' = Tail(rest)
            /\ sdKey' = Head(rest)
            /\ sdT' = table[Head(rest)]

\* process.on('SIGINT'): the handler starts and runs to its first await.
sigint(order) ==
    /\ sdPc = "running"
    /\ sigTransports' = Live
    /\ runLoop(order, transports)
    /\ last' = Event("sigint", NoTransport, NoId)
    /\ UNCHANGED <<sessionVars, nReq, inflight, closeFailed, closedIds>>
    /\ UNCHANGED toolVars

\* Line 356, after the await: delete transports[sessionId].
deleteEntry(k, table) == [table EXCEPT ![k] = NoTransport]

\* await transports[sessionId].close() resolves: the transport has closed (its
\* onclose has run, now or earlier), line 356 deletes the entry and the loop
\* goes on to the next await or to the exit.
closeReturns ==
    /\ sdPc = "closing"
    /\ tState' = [tState EXCEPT ![sdT] = "closed"]
    /\ transports' = deleteEntry(sdKey,
                        IF tState[sdT] = "live" THEN onclose(sdT, transports)
                        ELSE transports)
    /\ closedIds' = IF tState[sdT] = "live" THEN closedIds \cup {newSessionId[sdT]}
                    ELSE closedIds
    /\ runLoop(sdKeys, transports')
    /\ last' = Event("closeReturns", sdT, sdKey)
    /\ UNCHANGED <<newSessionId, tConnected, tServer, serverTools, nUuid, nReq,
                   inflight, sigTransports, closeFailed>>
    /\ UNCHANGED toolVars

\* await transports[sessionId].close() rejects: lines 357-359 log the error,
\* the entry stays and the loop goes on to the next await or to the exit.
closeThrows ==
    /\ sdPc = "closing"
    /\ closeFailed' = closeFailed \cup {sdT}
    /\ runLoop(sdKeys, transports)
    /\ last' = Event("closeThrows", sdT, sdKey)
    /\ UNCHANGED <<sessionVars, nReq, inflight, sigTransports, closedIds>>
    /\ UNCHANGED toolVars

\* ------------------------------------------------------------------ specifications

Headers == KnownToCallers \cup {NoId}

\* The server in operation: requests and transport closures.
Next ==
    \/ \E hdr \in Headers, body \in Bodies : mcpPostHandler(hdr, body)
    \/ \E q \in InFlight : connectReturns(q)
    \/ \E q \in InFlight : connectThrows(q)
    \/ \E q \in InFlight : handleReturns(q)
    \/ \E q \in InFlight, headersSent \in BOOLEAN : handleThrows(q, headersSent)
    \/ \E hdr \in Headers : mcpGetHandler(hdr)
    \/ \E t \in TransportIds : transportCloses(t)

Spec == Init /\ [][Next]_vars

\* The server in operation and its shutdown on a termination signal.
NextShutdown ==
    \/ Next
    \/ \E order \in Orders(OpenIds) : sigint(order)
    \/ closeReturns
    \/ closeThrows

SpecShutdown == Init /\ [][NextShutdown]_vars

\* ------------------------------------------------------------------ provider

\* Number of events the provider returns at most in one list.
MaxEvents == 4

\* HTTP statuses of the provider's answers.
Statuses == {200, 404, 500}

\* Mutant of responseOk: only server errors count as failures.
responseOk_below500(status) == status < 500

\* response.ok of fetch (lines 77, 158, 203): the status is in 200..299.
responseOk(status) == status >= 200 /\ status <= 299

\* Text is a sequence of characters; toLowerCase maps each character.
toLowerChar(c) == CASE c = "A" -> "a" [] c = "B" -> "b" [] OTHER -> c
\* Mutant of toLowerCase: the text is compared as written.
toLowerCase_asWritten(str) == str

toLowerCase(str) == [i \in DOMAIN str |-> toLowerChar(str[i])]

\* String.prototype.includes: sub occurs in str.
includes(str, sub) ==
    \E i \in 0..(Len(str) - Len(sub)) : SubSeq(str, i + 1, i + Len(sub)) = sub

\* The team names and the pairings the provider's events are drawn from.
Teams == {<<"A", "b">>, <<"b", "a">>, <<"a", "a">>}
Matchups == {[home_team |-> <<"A", "b">>, away_team |-> <<"b", "a">>],
             [home_team |-> <<"a", "a">>, away_team |-> <<"b", "a">>]}

\* An event list of the provider: the event at position i has the id i.
EventAt(i, m) == [id |-> i, home_team |-> m.home_team, away_team |-> m.away_team]
EventLists ==
    UNION {{[i \in 1..n |-> EventAt(i, ms[i])] : ms \in [1..n -> Matchups]} : n \in 0..MaxEvents}

\* The body of a provider answer: a JSON array, another JSON value, or no JSON.
Payload(shape, items) == [shape |-> shape, items |-> items]
Payloads == {Payload("array", l) : l \in EventLists}
               \cup {Payload("object", <<>>), Payload("invalid", <<>>)}

\* An optional argument or field: undefined, or a value.
Undefined == [defined |-> FALSE, value |-> <<>>]
Defined(v) == [defined |-> TRUE, value |-> v]

\* An outcome of a market: point is <<>> when the outcome has no point,
\* description is "" when it has none.
ProviderOutcome(name, description, price, point) ==
    [name |-> name, description |-> description, price |-> price, point |-> point]
Market(key, outcomes) == [key |-> key, outcomes |-> outcomes]
Bookmaker(key, title, markets) == [key |-> key, title |-> title, markets |-> markets]

\* A market with an outcome with a point, one with the point 0 and one without point.
SampleMarket ==
    Market("batter_home_runs",
           Defined(<< ProviderOutcome("Over", "Judge", 2, <<1>>),
                      ProviderOutcome("Under", "Judge", 2, <<0>>),
                      ProviderOutcome("Yes", "", 3, <<>>) >>))

\* What the bookmakers field of a game or of propsData holds.
BookmakersOf(shape) ==
    CASE shape = "noBookmakers" -> Undefined
      [] shape = "emptyBookmakers" -> Defined(<<>>)
      [] shape = "noDraftkings" ->
            Defined(<< Bookmaker("fanduel", "FanDuel", Defined(<<SampleMarket>>)) >>)
      [] shape = "noMarkets" ->
            Defined(<< Bookmaker("draftkings", "DraftKings", Defined(<<>>)) >>)
      [] shape = "markets" ->
            Defined(<< Bookmaker("draftkings", "DraftKings", Defined(<<SampleMarket>>)) >>)
      [] shape = "marketWithoutOutcomes" ->
            Defined(<< Bookmaker("draftkings", "DraftKings",
                                 Defined(<< Market("batter_home_runs", Undefined) >>)) >>)

\* What propsData, the body of the answer to a per-event odds request, holds.
PropsShapes == {"noBookmakers", "emptyBookmakers", "noDraftkings", "noMarkets", "markets",
                "marketWithoutOutcomes"}
PropsData(shape) == [bookmakers |-> BookmakersOf(shape)]

\* Number of games the provider returns at most in one odds list.
MaxGames == 2

\* The games of an odds list: the game at position i has the id i.
OddsShapes == {"noBookmakers", "emptyBookmakers", "noMarkets", "markets",
               "marketWithoutOutcomes"}
GameAt(i, shape) ==
    [id |-> i, home_team |-> <<"A", "b">>, away_team |-> <<"b", "a">>,
     bookmakers |-> BookmakersOf(shape)]
GameLists ==
    UNION {{[i \in 1..n |-> GameAt(i, sh[i])] : sh \in [1..n -> OddsShapes]} : n \in 0..MaxGames}

\* The provider's answers to a list request and to a per-event request: any
\* body with a 2xx status, an error document with any other status.
Answer(status, body) == [status |-> status, body |-> body]
ListAnswers ==
    {Answer(st, b) : st \in {x \in Statuses : x >= 200 /\ x <= 299}, b \in Payloads}
    \cup {Answer(st, Payload("object", <<>>)) : st \in {x \in Statuses : x < 200 \/ x > 299}}
OddsAnswers ==
    {Answer(st, b) : st \in {x \in Statuses : x >= 200 /\ x <= 299},
                     b \in {Payload("array", l) : l \in GameLists}
                            \cup {Payload("object", <<>>), Payload("invalid", <<>>)}}
    \cup {Answer(st, Payload("object", <<>>)) : st \in {x \in Statuses : x < 200 \/ x > 299}}
EventAnswers ==
    {Answer(st, b) : st \in {x \in Statuses : x >= 200 /\ x <= 299}, b \in PropsShapes}
    \cup {Answer(st, "error") : st \in {x \in Statuses : x < 200 \/ x > 299}}

\* ------------------------------------------------------------------ tools

\* Mutant of SportEnum: both tools validate against the enumeration of line 49.
SportEnum_sameForBoth(tool) ==
    {"baseball_mlb", "basketball_nba", "basketball_wnba", "americanfootball_nfl",
     "icehockey_nhl", "soccer_epl"}

\* z.enum of the inputSchema of each tool, lines 49 and 136.
SportEnum(tool) ==
    IF tool = "fetch_sports_odds"
    THEN {"baseball_mlb", "basketball_nba", "basketball_wnba", "americanfootball_nfl",
          "icehockey_nhl", "soccer_epl"}
    ELSE {"baseball_mlb", "basketball_wnba"}

\* .optional().default(...) of the markets schema, lines 51-53 and 137.
SchemaMarkets(tool, markets) ==
    IF markets.defined THEN markets
    ELSE IF tool = "fetch_sports_odds" THEN Defined(<<"h2h">>)
    ELSE Defined(<<"batter_home_runs", "pitcher_strikeouts">>)

\* Lines 142-144: if (!markets) markets = sport-dependent default.
HandlerMarkets(sport, markets) ==
    IF markets.defined THEN markets.value
    ELSE IF sport = "basketball_wnba"
         THEN <<"player_points", "player_rebounds", "player_assists">>
         ELSE <<"batter_home_runs", "pitcher_strikeouts">>

\* The arguments a caller may send.
SportInputs == SportEnum("fetch_sports_odds") \cup {"cricket_ipl"}
MarketInputs == {Undefined, Defined(<<"player_points">>)}
FilterInputs == {<<>>, <<"a", "B">>, <<"B", "a">>, <<"b", "b">>}

Fetch(kind, sport, event) == [kind |-> kind, sport |-> sport, event |-> event]
Response(status, shape) == [status |-> status, shape |-> shape]

\* return { content: [{ type: "text", text: result }] }
Report == Outcome("report", "", "", 0)
\* The SDK rejects arguments that do not match inputSchema.
InvalidArgument == Outcome("error", "", "InvalidArgument", 0)

\* A tool call arrives: the SDK validates the arguments against inputSchema
\* and only then calls the handler, which runs to its first await (the fetch
\* of line 76 or of line 157).
callTool(tool, sport, markets, team_filter) ==
    /\ toolPc = "idle"
    /\ call' = Call(tool, sport, markets, team_filter)
    /\ IF sport \notin SportEnum(tool)
       THEN /\ toolPc' = "done"
            /\ outcome' = InvalidArgument
            /\ UNCHANGED <<args, fetches>>
       ELSE /\ args' = [tool |-> tool, sport |-> sport,
                        markets |-> IF tool = "fetch_sports_odds"
                                    THEN SchemaMarkets(tool, markets).value
                                    ELSE HandlerMarkets(sport, SchemaMarkets(tool, markets)),
                        team_filter |-> IF tool = "fetch_sports_odds" THEN <<>>
                                        ELSE team_filter]
            /\ toolPc' = IF tool = "fetch_sports_odds" THEN "odds" ELSE "events"
            /\ fetches' = <<Fetch(IF tool = "fetch_sports_odds" THEN "odds" ELSE "events",
                                  sport, 0)>>
            /\ UNCHANGED outcome
    /\ UNCHANGED <<data, events, filteredEvents, gamesToProcess, gameIdx, responses, result>>
    /\ UNCHANGED routingVars

\* ------------------------------------------------------------------ fetch_sports_odds

\* Lines 87-90: the header of the odds report.
\* One line of a report: the kind of line and what it is filled in with (a
\* number and two texts or lists of texts).
Line(kind, n, a, b) == [kind |-> kind, n |-> n, a |-> a, b |-> b]

OddsHeader(a) ==
    << Line("Sports Odds Report - ", 0, <<a.sport>>, <<>>),
       Line("Generated: ", 0, <<>>, <<>>),
       Line("Markets: ", 0, a.markets, <<>>),
       Line("Regions: ", 0, <<"us">>, <<>>) >>

\* Lines 109 and 223: outcome.point as a condition; a missing point and the
\* point 0 are falsy.
pointTruthy(o) == o.point # <<>> /\ o.point[1] # 0
\* ` ${outcome.point}`: the point as text when the condition holds, else nothing.
pointText(o) == IF pointTruthy(o) THEN <<ToString(o.point[1])>> ELSE <<>>

\* Lines 101 and 215: x.bookmakers && x.bookmakers.length > 0
hasBookmakers(x) == x.bookmakers.defined /\ Len(x.bookmakers.value) > 0

RECURSIVE Concat(_)
Concat(ss) == IF ss = <<>> THEN <<>> ELSE Head(ss) \o Concat(Tail(ss))

\* Lines 106-110: one outcome of a market, `${outcome.name} (${outcome.price})`
\* and the point.
OddsOutcome(o) == Line("name (price) point", o.price, <<o.name>>, pointText(o))

\* Lines 104-112: the line of one market.
OddsMarket(m) ==
    << Line("     key: ", 0, <<m.key>>, <<>>) >>
    \o [i \in 1..Len(m.outcomes.value) |-> OddsOutcome(m.outcomes.value[i])]

\* Lines 102-113: the lines of one bookmaker.
OddsBookmaker(b) ==
    << Line("   title:", 0, <<b.title>>, <<>>) >>
    \o Concat([i \in 1..Len(b.markets.value) |-> OddsMarket(b.markets.value[i])])

\* Lines 98-115: the block of one game.
OddsGame(g, i) ==
    << Line("N. away @ home", i, g.away_team, g.home_team),
       Line("   Starts: ", g.id, <<>>, <<>>) >>
    \o (IF hasBookmakers(g)
        THEN Concat([k \in 1..Len(g.bookmakers.value) |-> OddsBookmaker(g.bookmakers.value[k])])
        ELSE <<>>)
    \o << Line("", 0, <<>>, <<>>) >>

\* Mutant of OddsBody: an empty list is announced like any other.
OddsBody_noEmptyLine(games) ==
    << Line("Found N games:", Len(games), <<>>, <<>>) >>
    \o Concat([i \in 1..Len(games) |-> OddsGame(games[i], i)])

\* Lines 92-117: the body of the odds report.
OddsBody(games) ==
    IF Len(games) = 0 THEN << Line("No games found for this sport.", 0, <<>>, <<>>) >>
    ELSE << Line("Found N games:", Len(games), <<>>, <<>>) >>
         \o Concat([i \in 1..Len(games) |-> OddsGame(games[i], i)])

\* forEach of an undefined markets or outcomes field throws a TypeError
\* (lines 104 and 106).
OddsRenderThrows(games) ==
    \E i \in 1..Len(games) :
        /\ hasBookmakers(games[i])
        /\ \E k \in 1..Len(games[i].bookmakers.value) :
              LET b == games[i].bookmakers.value[k]
              IN \/ ~b.markets.defined
                 \/ \E j \in 1..Len(b.markets.value) : ~b.markets.value[j].outcomes.defined

\* The provider answers the odds request: lines 77-128.
oddsResponds(status, payload) ==
    /\ toolPc = "odds"
    /\ toolPc' = "done"
    /\ responses' = Append(responses, Response(status, payload.shape))
    /\ data' = IF responseOk(status) /\ payload.shape = "array" THEN payload.items ELSE data
    /\ IF ~responseOk(status)
       THEN /\ outcome' = Outcome("error", "Failed to execute fetch_sports_odds: ",
                                  "API call failed: ", status)
            /\ UNCHANGED result
       ELSE IF payload.shape = "invalid"
       THEN /\ outcome' = Outcome("error", "Failed to execute fetch_sports_odds: ",
                                  "Unexpected token in JSON", 0)
            /\ UNCHANGED result
       ELSE IF payload.shape # "array"
       THEN /\ outcome' = Outcome("error", "Failed to execute fetch_sports_odds: ",
                                  "Invalid API response: expected array of games", 0)
            /\ UNCHANGED result
       ELSE IF OddsRenderThrows(payload.items)
       THEN /\ outcome' = Outcome("error", "Failed to execute fetch_sports_odds: ",
                                  "Cannot read properties of undefined", 0)
            /\ UNCHANGED result
       ELSE /\ result' = OddsHeader(args) \o OddsBody(payload.items)
            /\ outcome' = Report
    /\ UNCHANGED <<call, events, args, filteredEvents, gamesToProcess, gameIdx, fetches>>
    /\ UNCHANGED routingVars

\* ------------------------------------------------------------------ fetch_player_props

\* Lines 167-171: the events whose home or away team contains the filter,
\* both in lower case; an empty or missing filter keeps every event.
RECURSIVE filterEvents(_, _)
filterEvents(evs, team_filter) ==
    IF team_filter = <<>> THEN evs
    ELSE IF evs = <<>> THEN <<>>
    ELSE LET e == Head(evs)
             keep == \/ includes(toLowerCase(e.home_team), toLowerCase(team_filter))
                     \/ includes(toLowerCase(e.away_team), toLowerCase(team_filter))
         IN (IF keep THEN <<e>> ELSE <<>>) \o filterEvents(Tail(evs), team_filter)

\* Mutant of slice3: the list is not capped.
slice3_all(evs) == evs

\* Line 192: filteredEvents.slice(0, 3)
slice3(evs) == SubSeq(evs, 1, IF Len(evs) < 3 THEN Len(evs) ELSE 3)

\* Lines 176-180: the header of the props report.
PropsHeader(a) ==
    << Line("Player Props Report - ", 0, <<a.sport>>, <<>>),
       Line("Generated: ", 0, <<>>, <<>>),
       Line("Markets: ", 0, a.markets, <<>>) >>
    \o (IF a.team_filter # <<>> THEN << Line("Team Filter: ", 0, a.team_filter, <<>>) >>
        ELSE <<>>)

\* Lines 183-185: the line of the empty report.
NoGamesLine(a) ==
    IF a.team_filter # <<>> THEN Line("No games found for team today.", 0, a.team_filter, <<>>)
    ELSE Line("No games found for this sport today.", 0, <<>>, <<>>)

\* Lines 205 and 212 and 238: --- away @ home ---
BlockHeader(e) == Line("--- away @ home ---", e.id, e.away_team, e.home_team)

\* Lines 205-206: the block of an event whose odds request was not answered 2xx.
StatusErrorBlock(e, status) ==
    << BlockHeader(e), Line("Error: Unable to fetch props (status)", status, <<>>, <<>>) >>

\* Lines 238-239: the block written by the catch of the loop body.
CaughtErrorBlock(e) ==
    << BlockHeader(e), Line("Error: message", 0, <<>>, <<>>) >>

\* Lines 220-226: the line of one outcome; the player is the description of
\* the outcome or, without one, its name.
PropsOutcome(o) ==
    Line("  player: bet point (odds)", o.price,
         <<IF o.description # "" THEN o.description ELSE o.name, o.name>>, pointText(o))

\* Lines 218-227: the sections of the markets, up to the market whose
\* outcomes field is undefined, where forEach throws.
RECURSIVE PropsMarkets(_)
PropsMarkets(ms) ==
    IF ms = <<>> THEN [text |-> <<>>, threw |-> FALSE]
    ELSE LET m == Head(ms)
             title == << Line("MARKET KEY:", 0, <<m.key>>, <<>>) >>
         IN IF ~m.outcomes.defined THEN [text |-> title, threw |-> TRUE]
            ELSE LET rest == PropsMarkets(Tail(ms))
                 IN [text |-> title
                              \o [i \in 1..Len(m.outcomes.value) |->
                                     PropsOutcome(m.outcomes.value[i])]
                              \o rest.text,
                     threw |-> rest.threw]

\* Line 216: propsData.bookmakers.find(b => b.key === 'draftkings'), as a
\* list of no or one bookmaker.
findDraftkings(bms) ==
    LET ix == {i \in 1..Len(bms) : bms[i].key = "draftkings"}
    IN IF ix = {} THEN <<>> ELSE << bms[CHOOSE i \in ix : \A j \in ix : i <= j] >>

\* Lines 215-234: what is written after the Starts line.
PropsBody(propsData) ==
    IF hasBookmakers(propsData)
    THEN LET dk == findDraftkings(propsData.bookmakers.value)
         IN IF dk # <<>> /\ dk[1].markets.defined /\ Len(dk[1].markets.value) > 0
            THEN LET r == PropsMarkets(dk[1].markets.value)
                 IN [text |-> r.text \o (IF r.threw THEN <<>> ELSE << Line("", 0, <<>>, <<>>) >>),
                     threw |-> r.threw]
            ELSE [text |-> << Line("No DraftKings props available for this game", 0, <<>>, <<>>),
                              Line("", 0, <<>>, <<>>) >>,
                  threw |-> FALSE]
    ELSE [text |-> << Line("No bookmaker data available for this game", 0, <<>>, <<>>),
                      Line("", 0, <<>>, <<>>) >>,
          threw |-> FALSE]

\* Lines 212-234: what the loop body writes for an event whose odds request
\* was answered 2xx, up to the point where rendering throws, if it does.
DataBlock(e, shape) ==
    << BlockHeader(e), Line("Starts: ", e.id, <<>>, <<>>) >> \o PropsBody(PropsData(shape)).text

\* Rendering throws at line 220 when a market of the answer has no outcomes array.
RenderThrows(shape) == PropsBody(PropsData(shape)).threw

\* Mutant of nextGame: the requests of all remaining events are issued at once.
nextGame_fanOut(games, idx, text) ==
    IF idx < Len(games)
    THEN /\ toolPc' = "props"
         /\ gameIdx' = idx + 1
         /\ fetches' = fetches \o [k \in 1..(Len(games) - idx) |->
                                      Fetch("props", args.sport, games[idx + k].id)]
         /\ result' = text
         /\ UNCHANGED outcome
    ELSE /\ toolPc' = "done"
         /\ gameIdx' = idx
         /\ result' = text
         /\ outcome' = Report
         /\ UNCHANGED fetches

\* The for-of loop from the head of an iteration to the await of the fetch of
\* line 202, or past the last event to the return of line 243.
nextGame(games, idx, text) ==
    IF idx < Len(games)
    THEN /\ toolPc' = "props"
         /\ gameIdx' = idx + 1
         /\ fetches' = Append(fetches, Fetch("props", args.sport, games[idx + 1].id))
         /\ result' = text
         /\ UNCHANGED outcome
    ELSE /\ toolPc' = "done"
         /\ gameIdx' = idx
         /\ result' = text
         /\ outcome' = Report
         /\ UNCHANGED fetches

\* An exception reaches the outer catch, lines 250-253.
PropsFailed(cause, status) ==
    /\ toolPc' = "done"
    /\ outcome' = Outcome("error", "Failed to fetch player props: ", cause, status)
    /\ UNCHANGED <<data, events, filteredEvents, gamesToProcess, gameIdx, fetches, result>>

\* The provider answers the events request: lines 158-202.
eventsResponds(status, payload) ==
    /\ toolPc = "events"
    /\ responses' = Append(responses, Response(status, payload.shape))
    /\ IF ~responseOk(status)
       THEN PropsFailed("Events API call failed: ", status)
       ELSE IF payload.shape = "invalid"
       THEN PropsFailed("Unexpected token in JSON", 0)
       ELSE IF payload.shape # "array"
       THEN PropsFailed("is not a function", 0)
       ELSE LET filtered == filterEvents(payload.items, args.team_filter)
                games == slice3(filtered)
            IN /\ events' = payload.items
               /\ filteredEvents' = filtered
               /\ IF Len(filtered) = 0
                  THEN /\ toolPc' = "done"
                       /\ result' = PropsHeader(args) \o << NoGamesLine(args) >>
                       /\ outcome' = Report
                       /\ UNCHANGED <<gamesToProcess, gameIdx, fetches>>
                  ELSE /\ gamesToProcess' = games
                       /\ nextGame(games, 0,
                                   PropsHeader(args)
                                   \o << Line("Processing N games:", Len(games), <<>>, <<>>) >>)
    /\ UNCHANGED <<call, data, args>>
    /\ UNCHANGED routingVars

\* Mutant of propsResponds: a failed per-event request aborts the call.
propsResponds_abortsOnFailure(status, shape) ==
    /\ toolPc = "props"
    /\ responses' = Append(responses, Response(status, shape))
    /\ LET e == gamesToProcess[gameIdx]
       IN IF ~responseOk(status)
          THEN PropsFailed("Props API call failed: ", status)
          ELSE nextGame(gamesToProcess, gameIdx, result \o DataBlock(e, shape))
    /\ UNCHANGED <<call, data, events, args, filteredEvents, gamesToProcess>>
    /\ UNCHANGED routingVars

\* The provider answers the odds request of the current event: lines 203-234.
propsResponds(status, shape) ==
    /\ toolPc = "props"
    /\ responses' = Append(responses, Response(status, shape))
    /\ LET e == gamesToProcess[gameIdx]
       IN IF ~responseOk(status)
          THEN nextGame(gamesToProcess, gameIdx, result \o StatusErrorBlock(e, status))
          ELSE IF RenderThrows(shape)
          THEN nextGame(gamesToProcess, gameIdx,
                        result \o DataBlock(e, shape) \o CaughtErrorBlock(e))
          ELSE nextGame(gamesToProcess, gameIdx, result \o DataBlock(e, shape))
    /\ UNCHANGED <<call, data, events, args, filteredEvents, gamesToProcess>>
    /\ UNCHANGED routingVars

\* The fetch of line 202 rejects (no answer from the provider): lines 236-240.
propsFetchThrows ==
    /\ toolPc = "props"
    /\ responses' = Append(responses, Response(0, "none"))
    /\ nextGame(gamesToProcess, gameIdx, result \o CaughtErrorBlock(gamesToProcess[gameIdx]))
    /\ UNCHANGED <<call, data, events, args, filteredEvents, gamesToProcess>>
    /\ UNCHANGED routingVars

\* The fetch of line 76 or of line 157 rejects: the outer catch rethrows.
firstFetchThrows ==
    /\ toolPc \in {"odds", "events"}
    /\ toolPc' = "done"
    /\ responses' = Append(responses, Response(0, "none"))
    /\ outcome' = Outcome("error",
                          IF toolPc = "odds" THEN "Failed to execute fetch_sports_odds: "
                          ELSE "Failed to fetch player props: ",
                          "fetch failed", 0)
    /\ UNCHANGED <<call, data, events, args, filteredEvents, gamesToProcess, gameIdx, fetches, result>>
    /\ UNCHANGED routingVars

\* One call of a tool, from the arguments to the report or the error.
NextTools ==
    \/ \E tool \in ToolNames, sport \in SportInputs, markets \in MarketInputs,
          team_filter \in FilterInputs : callTool(tool, sport, markets, team_filter)
    \/ \E a \in OddsAnswers : oddsResponds(a.status, a.body)
    \/ \E a \in ListAnswers : eventsResponds(a.status, a.body)
    \/ \E a \in EventAnswers : propsResponds(a.status, a.body)
    \/ propsFetchThrows
    \/ firstFetchThrows

SpecTools == Init /\ [][NextTools]_vars

\* ------------------------------------------------------------------ properties

PostOps == {"postCreate", "postReuse"}
GetOps == {"getRejected", "getDispatched"}

\* The step is the arrival of a POST /mcp request (last' describes it).
PostArrives == nReq' = nReq + 1 /\ last'.op \in PostOps
\* The step is the arrival of a GET /mcp request.
GetArrives == nReq' = nReq + 1 /\ last'.op \in GetOps

\* The step puts one more request in flight, handed to transport t.
HandedTo(t) ==
    \E q \in BagToSet(inflight') :
        /\ CopiesIn(q, inflight') = CopiesIn(q, inflight) + 1
        /\ q.sid = last'.hdr
        /\ q.handledBy = t

\* C1: in every reachable state a session identifier has at most one live
\* (created and not yet closed) transport, and any two requests in flight that
\* bear the same session identifier have been handed to the same transport.
C1_OneTransportPerSession ==
    /\ \A t1, t2 \in Live : newSessionId[t1] = newSessionId[t2] => t1 = t2
    /\ \A q1, q2 \in InFlight :
          ( /\ q1.sid # NoId
            /\ q1.sid = q2.sid
            /\ q1.handledBy # NoTransport
            /\ q2.handledBy # NoTransport ) => q1.handledBy = q2.handledBy

\* The case of C2: a POST whose identifier is not in the table and whose body
\* is not an initialize message has just been received.
C2_Case ==
    /\ last.op \in PostOps
    /\ last.hdr # NoId
    /\ ~last.known
    /\ ~isInitializeRequest(last.body)

\* C2 as stated: such a request is answered with a session-not-found error
\* and no transport is created for it.
C2_UnknownSessionRejected ==
    C2_Case => (last.op # "postCreate" /\ last.status \in {"400", "404"})

\* C2 as amended: such a request is not rejected; the handler creates a new
\* transport, registers it under the identifier the caller supplied and
\* awaits the connect of a new protocol server to it, with no answer given yet.
C2_UnknownSessionCreates ==
    C2_Case =>
        /\ last.op = "postCreate"
        /\ last.status = "pending"
        /\ last.sid = last.hdr
        /\ last.t = nTransports
        /\ transports[last.hdr] = last.t
        /\ tState[last.t] = "live"
        /\ newSessionId[last.t] = last.hdr
        /\ tServer[last.t] = nServers
        /\ \E q \in InFlight :
              q.sid = last.hdr /\ q.transport = last.t /\ q.creator /\ q.pc = "connect"

C2_Witness == C2_Case /\ last.op = "postCreate" /\ transports[last.hdr] = last.t

\* C3: a POST whose identifier is in the table and whose body is not an
\* initialize message is handed to the transport stored for the identifier;
\* the table, the transports and the protocol servers stay as they are.
C3_KnownSessionReusesTransport ==
    [][ ( /\ PostArrives
          /\ last'.hdr # NoId
          /\ transports[last'.hdr] # NoTransport
          /\ ~isInitializeRequest(last'.body) )
        => /\ UNCHANGED sessionVars
           /\ last'.t = transports[last'.hdr]
           /\ HandedTo(transports[last'.hdr]) ]_vars

C3_Witness ==
    /\ last.op = "postReuse"
    /\ last.known
    /\ ~isInitializeRequest(last.body)
    /\ \E q \in InFlight : q.sid = last.hdr /\ q.handledBy = transports[last.hdr]

\* C4: a POST with no session identifier, or with an initialize body, creates
\* a new transport, registers it under an identifier (the caller's, or a fresh
\* server-generated one when the caller gave none) and creates a new protocol
\* server with both tools for it; the request is handed to the transport only
\* once the connect of that server has completed.
C4_InitializingRequestCreates ==
    /\ [][ ( /\ PostArrives
             /\ (last'.hdr = NoId \/ isInitializeRequest(last'.body)) )
           => LET t == nTransports + 1
                  sid == last'.sid
              IN /\ tState[t] = "unborn"
                 /\ tState'[t] = "live"
                 /\ sid \in SessionIds
                 /\ IF last'.hdr # NoId THEN sid = last'.hdr
                    ELSE sid \notin KnownToCallers
                 /\ transports'[sid] = t
                 /\ Len(serverTools') = Len(serverTools) + 1
                 /\ tServer'[t] = Len(serverTools')
                 /\ serverTools'[tServer'[t]] = ToolNames
                 /\ ~tConnected'[t]
                 /\ \E q \in BagToSet(inflight') :
                       /\ CopiesIn(q, inflight') = CopiesIn(q, inflight) + 1
                       /\ q.transport = t
                       /\ q.creator
                       /\ q.handledBy = NoTransport ]_vars
    /\ [](\A q \in InFlight :
            (q.creator /\ q.handledBy # NoTransport)
            => /\ q.handledBy = q.transport
               /\ tConnected[q.transport]
               /\ serverTools[tServer[q.transport]] = ToolNames)

C4_Witness ==
    /\ last.op = "connectReturns"
    /\ \E q \in InFlight :
          /\ q.creator
          /\ q.sid = NoId
          /\ q.handledBy = last.t
          /\ tConnected[last.t]
          /\ transports[newSessionId[last.t]] = last.t

\* C5: when a transport has signalled closure, the session table holds no
\* entry for its session identifier, and no entry holds the closed transport.
C5_ClosedSessionLeavesTable ==
    last.op \in {"onclose", "closeReturns"} =>
        /\ transports[last.sid] = NoTransport
        /\ \A s \in SessionIds : transports[s] # last.t

C5_Witness ==
    /\ last.op = "onclose"
    /\ tState[last.t] = "closed"
    /\ last.sid = newSessionId[last.t]
    /\ last.sid \in closedIds

\* C6 as stated: CLOSED is terminal; an identifier whose transport has closed
\* is never again bound to a transport in the table.
C6_ClosedIsTerminal == closedIds \cap OpenIds = {}

\* C6 as amended: a transport that has closed stays closed; its identifier
\* leaves the table and comes back into it only by a later POST /mcp that
\* bears this identifier and creates a new transport for it.
C6_ReopenedOnlyByPost ==
    /\ [][ \A s \in closedIds :
             (transports[s] = NoTransport /\ transports'[s] # NoTransport)
             => /\ last'.op = "postCreate"
                /\ last'.hdr = s
                /\ tState[transports'[s]] = "unborn" ]_vars
    /\ [][ \A t \in TransportIds : tState[t] = "closed" => tState'[t] = "closed" ]_vars
    /\ [](last.op = "onclose" => last.sid \notin OpenIds)

C6_Witness ==
    /\ last.op = "postCreate"
    /\ last.sid \in closedIds
    /\ transports[last.sid] = last.t
    /\ tState[last.t] = "live"

\* C7: a GET /mcp whose identifier is missing or not in the table is answered
\* with 400, changes nothing and is handed to no transport; a GET with a known
\* identifier is handed to the transport stored for it.
C7_GetRequiresSession ==
    [][ GetArrives =>
          IF last'.hdr = NoId \/ transports[last'.hdr] = NoTransport
          THEN /\ last'.status = "400"
               /\ UNCHANGED sessionVars
               /\ inflight' = inflight
          ELSE /\ UNCHANGED sessionVars
               /\ last'.t = transports[last'.hdr]
               /\ HandedTo(transports[last'.hdr]) ]_vars

C7_Witness ==
    /\ last.op = "getRejected"
    /\ last.hdr # NoId
    /\ ~last.known
    /\ last.status = "400"

\* C8: when the process exits after a termination signal, every transport
\* that was open when the signal arrived has been closed, or its close was
\* attempted and failed (which is logged).
C8_OpenSessionsClosedAtExit ==
    sdPc = "exited" =>
        \A t \in sigTransports : tState[t] = "closed" \/ t \in closeFailed

\* A provider response whose status is outside 200..299 (a rejected fetch
\* brought no response and is recorded with status 0).
Non2xx(r) == r.status # 0 /\ r.status \notin 200..299

\* C9 as stated: after any non-2xx provider response the tool call does not
\* complete as a report; it ends with an error that carries the status.
C9_Non2xxEndsInError ==
    \A i \in DOMAIN responses :
        Non2xx(responses[i]) =>
            /\ outcome.kind # "report"
            /\ toolPc = "done" => (outcome.kind = "error" /\ outcome.status = responses[i].status)

\* The report holds an error block of event e that shows the status.
HasStatusErrorBlock(e, status) ==
    \E j \in 1..(Len(result) - 1) :
        /\ result[j] = BlockHeader(e)
        /\ result[j + 1] = Line("Error: Unable to fetch props (status)", status, <<>>, <<>>)

\* C9 as amended: a non-2xx response to the odds request of fetch_sports_odds
\* or to the events request of fetch_player_props ends the call at once with
\* an error that carries the status, with no report and no further request;
\* a non-2xx response to a per-event odds request is written into the report
\* as an error block of that event showing the status, and the call goes on
\* and ends as a report.
C9_Non2xxByRequest ==
    \A i \in DOMAIN responses :
        Non2xx(responses[i]) =>
            IF fetches[i].kind \in {"odds", "events"}
            THEN /\ toolPc = "done"
                 /\ outcome.kind = "error"
                 /\ outcome.status = responses[i].status
                 /\ result = <<>>
                 /\ Len(fetches) = 1
            ELSE /\ HasStatusErrorBlock(gamesToProcess[i - 1], responses[i].status)
                 /\ outcome.kind # "error"
                 /\ toolPc = "done" => outcome.kind = "report"

C9_Witness ==
    /\ toolPc = "done"
    /\ args.tool = "fetch_player_props"
    /\ Len(responses) = 1
    /\ responses[1].status = 404
    /\ outcome.kind = "error"
    /\ outcome.status = 404

\* The events for which the call has issued a per-event odds request, in order.
EventFetches ==
    LET fs == SelectSeq(fetches, LAMBDA f : f.kind = "props")
    IN [i \in 1..Len(fs) |-> fs[i].event]

\* C10: one call of fetch_player_props issues at most 3 per-event requests:
\* one for each of the first 3 events of the filtered list, in the provider's
\* order, each once, however many events the list holds.
C10_AtMostThreeEventFetches ==
    LET ev == EventFetches
    IN /\ Len(ev) <= 3
       /\ Len(ev) <= Len(filteredEvents)
       /\ \A i \in DOMAIN ev : ev[i] = filteredEvents[i].id
       /\ \A i, j \in DOMAIN ev : ev[i] = ev[j] => i = j
       /\ (toolPc = "done" /\ outcome.kind = "report")
            => Len(ev) = (IF Len(filteredEvents) < 3 THEN Len(filteredEvents) ELSE 3)

C10_Witness ==
    /\ toolPc = "done"
    /\ outcome.kind = "report"
    /\ Len(filteredEvents) > 3
    /\ Len(EventFetches) = 3

\* Two characters are the same letter, whatever their case.
SameLetter(c, d) == c = d \/ {c, d} = {"a", "A"} \/ {c, d} = {"b", "B"}

\* sub occurs in str at some position, letter by letter, case ignored.
OccursIgnoringCase(sub, str) ==
    \E k \in 0..(Len(str) - Len(sub)) : \A j \in 1..Len(sub) : SameLetter(str[k + j], sub[j])

\* The provider has answered the events request of fetch_player_props with a list.
EventsListed ==
    /\ call.tool = "fetch_player_props"
    /\ Len(responses) >= 1
    /\ responses[1].status \in 200..299
    /\ responses[1].shape = "array"

\* C11: with a team filter, filteredEvents holds exactly the provider's events
\* whose home or away team name contains the filter, case ignored, in the
\* provider's order; when none is retained the call has ended with the
\* "no games found" report and has issued no per-event request.
C11_FilterRetainsMatchingEvents ==
    (EventsListed /\ call.team_filter # <<>>) =>
        /\ filteredEvents =
               SelectSeq(events, LAMBDA e : \/ OccursIgnoringCase(call.team_filter, e.home_team)
                                           \/ OccursIgnoringCase(call.team_filter, e.away_team))
        /\ Len(filteredEvents) = 0 =>
               /\ toolPc = "done"
               /\ outcome = Report
               /\ Len(fetches) = 1
               /\ EventFetches = <<>>
               /\ Len(result) = Len(PropsHeader(args)) + 1
               /\ result[Len(result)] = NoGamesLine(args)

\* The filter dropped every event of a non-empty list: the short report.
C11_Witness ==
    /\ EventsListed
    /\ call.team_filter # <<>>
    /\ Len(events) >= 2
    /\ filteredEvents = <<>>
    /\ toolPc = "done"
    /\ outcome = Report

\* The filter kept some events of the list and dropped others.
C11_WitnessPartial ==
    /\ EventsListed
    /\ call.team_filter # <<>>
    /\ Len(filteredEvents) >= 1
    /\ Len(filteredEvents) < Len(events)

\* block occurs in text as consecutive parts.
ContainsBlock(text, block) ==
    \E k \in 0..(Len(text) - Len(block)) : SubSeq(text, k + 1, k + Len(block)) = block

\* The per-event request of responses[i] failed: it was answered outside
\* 200..299, or the fetch threw (recorded with status 0).
EventFetchFailed(i) ==
    /\ i \in DOMAIN responses
    /\ fetches[i].kind = "props"
    /\ responses[i].status \notin 200..299

\* The number of "Error: ..." lines in the report.
ErrorLines ==
    Len(SelectSeq(result, LAMBDA l : l.kind \in {"Error: Unable to fetch props (status)",
                                                   "Error: message"}))

\* The number of per-event requests whose processing ended in the catch or in
\* the non-ok branch.
FailedEvents ==
    Cardinality({i \in DOMAIN responses :
                    EventFetchFailed(i)
                    \/ (fetches[i].kind = "props" /\ RenderThrows(responses[i].shape))})

\* C12: when the per-event request of an event fails (non-2xx answer or thrown
\* fetch), the report holds an error block of that event, there are as many
\* error lines as failed events, the call does not end in an error, the next
\* event of the capped list is requested, every later event answered with
\* data is rendered with that data, and the finished call is a report that
\* has requested every event of the capped list.
C12_EventFailureStaysInline ==
    \A i \in DOMAIN responses :
        EventFetchFailed(i) =>
            LET e == gamesToProcess[i - 1]
            IN /\ IF responses[i].status = 0
                  THEN ContainsBlock(result, CaughtErrorBlock(e))
                  ELSE ContainsBlock(result, StatusErrorBlock(e, responses[i].status))
               /\ ErrorLines = FailedEvents
               /\ outcome.kind # "error"
               /\ i - 1 < Len(gamesToProcess) => Len(fetches) > i
               /\ \A j \in DOMAIN responses :
                     (j > i /\ responses[j].status \in 200..299) =>
                         ContainsBlock(result,
                                       DataBlock(gamesToProcess[j - 1], responses[j].shape))
               /\ toolPc = "done" =>
                     /\ outcome = Report
                     /\ Len(EventFetches) = Len(gamesToProcess)

\* The first event answered 404, the second with data, the third fetch threw.
C12_Witness ==
    /\ toolPc = "done"
    /\ outcome = Report
    /\ Len(responses) = 4
    /\ responses[2].status = 404
    /\ responses[3] = Response(200, "markets")
    /\ responses[4].status = 0
    /\ EventFetchFailed(2)
    /\ ContainsBlock(result, DataBlock(gamesToProcess[2], "markets"))

\* The default markets of a sport for fetch_player_props.
SportDefaultMarkets(sport) ==
    IF sport = "basketball_wnba" THEN <<"player_points", "player_rebounds", "player_assists">>
    ELSE <<"batter_home_runs", "pitcher_strikeouts">>

\* The handler of fetch_player_props has run for a call that sent no markets.
PropsCalledWithoutMarkets ==
    /\ call.tool = "fetch_player_props"
    /\ ~call.markets.defined
    /\ args # NoArgs

\* C13: when fetch_player_props is called without markets, the markets the
\* handler works with, and the Markets line of the report, are the default of
\* the requested sport: the three player markets for basketball_wnba, the
\* two baseball markets for baseball_mlb.
C13_DefaultMarketsBySport ==
    PropsCalledWithoutMarkets =>
        /\ args.markets = SportDefaultMarkets(call.sport)
        /\ result # <<>> =>
               result[3] = Line("Markets: ", 0, SportDefaultMarkets(call.sport), <<>>)

\* What the code does for such a call: the markets are the default of the
\* schema, whatever the sport.
C13_SchemaDefaultWins ==
    PropsCalledWithoutMarkets =>
        args.markets = <<"batter_home_runs", "pitcher_strikeouts">>

\* The sport keys README.md lists for fetch_player_props.
DocumentedPropsSports ==
    {"baseball_mlb", "basketball_wnba", "americanfootball_nfl", "icehockey_nhl"}

\* C14: a call of fetch_player_props with any of the sport keys baseball_mlb,
\* basketball_wnba, americanfootball_nfl and icehockey_nhl is accepted: it is
\* not answered with an invalid-argument error, and the handler runs and
\* issues the events request for that sport.
C14_DocumentedPropsSportsAccepted ==
    (call.tool = "fetch_player_props" /\ call.sport \in DocumentedPropsSports) =>
        /\ outcome # InvalidArgument
        /\ args.sport = call.sport
        /\ Len(fetches) >= 1
        /\ fetches[1] = Fetch("events", call.sport, 0)

\* What the code does: only the two sports of line 136 reach the handler.
C14_OnlyEnumeratedPropsSportsRun ==
    call.tool = "fetch_player_props" =>
        IF call.sport \in {"baseball_mlb", "basketball_wnba"}
        THEN outcome # InvalidArgument /\ fetches[1] = Fetch("events", call.sport, 0)
        ELSE outcome = InvalidArgument /\ fetches = <<>>

\* The fixed enumeration of each tool, as the specification gives it.
OddsEnumeration ==
    {"baseball_mlb", "basketball_nba", "basketball_wnba", "americanfootball_nfl",
     "icehockey_nhl", "soccer_epl"}
PropsEnumeration == {"baseball_mlb", "basketball_wnba"}
EnumerationOf(tool) == IF tool = "fetch_sports_odds" THEN OddsEnumeration ELSE PropsEnumeration

\* C15: a tool call whose sport is outside the enumeration of the tool ends
\* at once with an invalid-argument error: the handler has received no
\* arguments, and no provider request is issued and none is answered.
C15_InvalidSportNeverReachesProvider ==
    (call.tool # "none" /\ call.sport \notin EnumerationOf(call.tool)) =>
        /\ toolPc = "done"
        /\ outcome = InvalidArgument
        /\ args = NoArgs
        /\ fetches = <<>>
        /\ responses = <<>>
        /\ result = <<>>

\* fetch_player_props was called with a sport that only fetch_sports_odds knows.
C15_Witness ==
    /\ call.tool = "fetch_player_props"
    /\ call.sport = "basketball_nba"
    /\ toolPc = "done"
    /\ outcome = InvalidArgument
    /\ fetches = <<>>

\* The steps in which the handling of a request failed inside the router.
FailureOps == {"connectThrows", "handleThrows"}

\* C16: when the handling of a request fails and nothing of the response has
\* been sent, the router answers 500 with a JSON-RPC error envelope, for a
\* POST /mcp request and for a GET /mcp request alike (when the response has
\* been started, the answer is what the transport wrote).
C16_InternalFailureGetsEnvelope ==
    last.op \in FailureOps => last.status \in {"500json", "byTransport"}

\* The provider has answered the odds request of fetch_sports_odds with a list.
OddsListed ==
    /\ call.tool = "fetch_sports_odds"
    /\ call.sport \in OddsEnumeration
    /\ toolPc = "done"
    /\ responses = << Response(200, "array") >>

\* The parts of the report of the given kinds, in order.
LinesOfKind(kinds) == SelectSeq(result, LAMBDA l : l.kind \in kinds)

\* C17: for every sport of the odds enumeration, when the provider answers
\* fetch_sports_odds with an empty array the call returns a report made of
\* the four header lines followed by the single line "No games found for
\* this sport."; the report holds no game block and no count of games.
C17_EmptyOddsListReport ==
    (OddsListed /\ data = <<>>) =>
        /\ outcome = Report
        /\ Len(result) = 5
        /\ [i \in 1..4 |-> result[i].kind] =
              << "Sports Odds Report - ", "Generated: ", "Markets: ", "Regions: " >>
        /\ result[1].a = <<call.sport>>
        /\ result[5] = Line("No games found for this sport.", 0, <<>>, <<>>)
        /\ LinesOfKind({"N. away @ home", "Found N games:", "   Starts: ", "   title:"}) = <<>>

C17_Witness ==
    /\ OddsListed
    /\ call.sport = "soccer_epl"
    /\ data = <<>>
    /\ outcome = Report
    /\ result[Len(result)].kind = "No games found for this sport."

\* The events whose block the report holds, by the id in the block header,
\* in the order of the report.
BlockIds ==
    LET hs == LinesOfKind({"--- away @ home ---"})
    IN [i \in 1..Len(hs) |-> hs[i].n]

\* C18: in a call of fetch_player_props at most one per-event request is
\* unanswered at any time, the request of an event is issued only when the
\* block of every earlier event is in the report, and the blocks of the
\* report are those of the events answered so far, in the provider's order
\* (the provider's list holds the event with id i at position i).
C18_SequentialFetchesInProviderOrder ==
    call.tool = "fetch_player_props" =>
        /\ Len(fetches) <= Len(responses) + 1
        /\ \A i \in 2..Len(fetches) :
              /\ fetches[i].event = gamesToProcess[i - 1].id
              /\ \A j \in 1..(i - 2) :
                    ContainsBlock(result, << BlockHeader(gamesToProcess[j]) >>)
        /\ \A j \in 1..Len(gamesToProcess) :
              /\ gamesToProcess[j] = events[gamesToProcess[j].id]
              /\ j > 1 => gamesToProcess[j - 1].id < gamesToProcess[j].id
        /\ \A p, q \in DOMAIN BlockIds : p < q => BlockIds[p] <= BlockIds[q]
        /\ {BlockIds[p] : p \in DOMAIN BlockIds} =
              {gamesToProcess[j].id : j \in 1..(Len(responses) - 1)}

\* Three events were processed, the filter having dropped an earlier one.
C18_Witness ==
    /\ call.tool = "fetch_player_props"
    /\ toolPc = "done"
    /\ outcome = Report
    /\ Len(responses) = 4
    /\ Len(events) > Len(filteredEvents)
    /\ gamesToProcess[1].id > 1
    /\ Len(BlockIds) >= 3

\* A game or a props answer without data: no bookmakers, the wanted bookmaker
\* (none for the odds report, draftkings for the props report) missing, or a
\* bookmaker without markets.
NoBookmakerData(x, wanted) ==
    \/ ~x.bookmakers.defined
    \/ x.bookmakers.value = <<>>
    \/ (wanted # "" /\ \A k \in 1..Len(x.bookmakers.value) : x.bookmakers.value[k].key # wanted)
    \/ \E k \in 1..Len(x.bookmakers.value) :
          LET b == x.bookmakers.value[k]
          IN (wanted = "" \/ b.key = wanted) /\ (~b.markets.defined \/ b.markets.value = <<>>)

NoDataKinds == {"No bookmaker data available for this game",
                "No DraftKings props available for this game"}

\* The block of the report that starts with the given header line holds an
\* explicit no-data line before the next blank line.
BlockSaysNoData(header) ==
    \E k \in DOMAIN result :
        /\ result[k] = header
        /\ \E m \in (k + 1)..Len(result) :
              /\ result[m].kind \in NoDataKinds
              /\ \A x \in (k + 1)..(m - 1) : result[x].kind # ""

\* The props half of C19: every event answered without data has the line.
PropsNoDataIsExplicit ==
    call.tool = "fetch_player_props" =>
        \A j \in 2..Len(responses) :
            (responses[j].status \in 200..299
             /\ NoBookmakerData(PropsData(responses[j].shape), "draftkings"))
                => BlockSaysNoData(BlockHeader(gamesToProcess[j - 1]))

\* The odds half of C19: every game of the list without data has the line.
OddsNoDataIsExplicit ==
    (OddsListed /\ outcome = Report) =>
        \A i \in 1..Len(data) :
            NoBookmakerData(data[i], "")
                => BlockSaysNoData(Line("N. away @ home", i, data[i].away_team,
                                        data[i].home_team))

\* C19: in the odds report and in the props report, a game whose bookmaker
\* or market section has no data (no bookmakers, the wanted bookmaker
\* missing, no markets) has an explicit no-data line in its block.
C19_NoDataIsExplicit == PropsNoDataIsExplicit /\ OddsNoDataIsExplicit

\* The outcomes of the markets of the bookmakers of a game or props answer
\* that the report renders (every bookmaker, or the wanted one).
OutcomesOf(x, wanted) ==
    IF ~x.bookmakers.defined THEN {}
    ELSE UNION {UNION {IF ~b.markets.value[j].outcomes.defined THEN {}
                       ELSE {b.markets.value[j].outcomes.value[i] :
                                i \in 1..Len(b.markets.value[j].outcomes.value)}
                       : j \in 1..Len(b.markets.value)}
                : b \in {x.bookmakers.value[k] :
                            k \in {n \in 1..Len(x.bookmakers.value) :
                                      wanted = "" \/ x.bookmakers.value[n].key = wanted}}}

\* What is appended to an outcome: its point when it has one; the point 0
\* counts as a point or not.
PointAppended(o, zeroCounts) ==
    IF o.point = <<>> \/ (~zeroCounts /\ o.point[1] = 0) THEN <<>>
    ELSE << ToString(o.point[1]) >>

\* Every rendered outcome of both reports carries that appendix.
OutcomesRenderedWith(zeroCounts) ==
    /\ (OddsListed /\ outcome = Report) =>
          \A i \in 1..Len(data) : \A o \in OutcomesOf(data[i], "") :
              ContainsBlock(result, << Line("name (price) point", o.price, <<o.name>>, PointAppended(o, zeroCounts)) >>)
    /\ call.tool = "fetch_player_props" =>
          \A j \in 2..Len(responses) :
              (responses[j].status \in 200..299 /\ ~RenderThrows(responses[j].shape)) =>
                  \A o \in OutcomesOf(PropsData(responses[j].shape), "draftkings") :
                      ContainsBlock(result,
                          << Line("  player: bet point (odds)", o.price,
                                  << IF o.description # "" THEN o.description ELSE o.name,
                                     o.name >>, PointAppended(o, zeroCounts)) >>)

\* C20: in both reports every outcome that has a point, the point 0
\* included, is rendered with its point appended, and every outcome without
\* a point is rendered with nothing appended.
C20_PointAppendedWhenPresent == OutcomesRenderedWith(TRUE)

\* What the code does: the point is appended when it is present and not 0.
C20_PointAppendedWhenTruthy == OutcomesRenderedWith(FALSE)

\* The step is the close handler of a transport (last' names the transport).
OncloseRuns == last'.op = "onclose" /\ tState'[last'.t] # tState[last'.t]

\* C21: when the close handler of a transport runs, every entry of the
\* session table that binds another transport stays as it is; in particular
\* the entry of the transport that superseded it under the same identifier.
C21_OncloseKeepsOtherEntries ==
    [][ OncloseRuns =>
          \A s \in SessionIds :
              (transports[s] # NoTransport /\ transports[s] # last'.t)
                  => transports'[s] = transports[s] ]_vars

\* What the code does: the handler deletes the entry of the identifier it
\* captured, whichever transport the entry binds.
C21_OncloseDeletesByIdentifier ==
    [][ OncloseRuns =>
          transports' = [transports EXCEPT ![newSessionId[last'.t]] = NoTransport] ]_vars

\* The transports the session table binds.
Bound == {transports[s] : s \in OpenIds}

\* C22: every transport that has been created and has not closed is bound by
\* an entry of the session table, whatever requests have been received.
C22_LiveTransportsAreBound == Live \subseteq Bound

\* What the code keeps: every entry binds a live transport under the
\* identifier that the transport's close handler captured.
C22_EntriesBindLiveTransports ==
    \A s \in OpenIds : transports[s] \in Live /\ newSessionId[transports[s]] = s

\* C23: every request that has been handed to a transport (its handler is in
\* or past the call of handleRequest) was handed to a transport to which the
\* protocol server's connect had completed, also when it arrived while the
\* request that created the transport was suspended in connect.
C23_HandledOnlyAfterConnect ==
    \A q \in InFlight : q.handledBy # NoTransport => tConnected[q.handledBy]

\* What the code ensures: the request that creates a transport hands itself
\* to it only after connect has completed.
C23_CreatorWaitsForConnect ==
    \A q \in InFlight : (q.creator /\ q.handledBy # NoTransport) => tConnected[q.handledBy]

\* C24: when the connect of the protocol server to a new transport has
\* thrown, the session table holds no entry for the identifier under which
\* the transport was stored, and no entry binds that transport.
C24_FailedSessionLeavesTable ==
    last.op = "connectThrows" =>
        /\ transports[newSessionId[last.t]] = NoTransport
        /\ last.t \notin Bound

\* What the code does: the catch block answers and leaves the table as the
\* failed connect found it.
C24_CatchLeavesTable ==
    [][ last'.op = "connectThrows" => transports' = transports ]_vars

\* fetch_player_props has returned a report with event blocks.
PropsReported ==
    /\ call.tool = "fetch_player_props"
    /\ toolPc = "done"
    /\ outcome = Report
    /\ gamesToProcess # <<>>

\* The count announced in the "Processing N games:" line.
AnnouncedGames == LinesOfKind({"Processing N games:"})[1].n

\* The report holds one block header per processed event, in order, and as
\* many data blocks (Starts line) and error blocks together as events.
OneBlockPerEvent ==
    /\ Len(BlockIds) = AnnouncedGames
    /\ BlockIds = [j \in 1..Len(gamesToProcess) |-> gamesToProcess[j].id]
    /\ Len(LinesOfKind({"Starts: "})) + ErrorLines = AnnouncedGames

\* C25: a report of fetch_player_props holds exactly one block header per
\* processed event, followed by a data block or by an error block and never
\* by both, so that the headers are as many as the "Processing N games" line
\* announces, also when rendering the data of an event throws.
C25_OneBlockHeaderPerEvent == PropsReported => OneBlockPerEvent

\* What the code ensures: one block per event as long as no rendering throws.
C25_OneBlockUnlessRenderThrows ==
    (PropsReported
     /\ \A i \in 2..Len(responses) :
           responses[i].status \in 200..299 => ~RenderThrows(responses[i].shape))
        => OneBlockPerEvent

====
